---- MODULE Spec2Model ----
(***************************************************************************)
(* Batch document ingestion of long_article_writer: the upload job state   *)
(* machine (UploadManager), the semaphore-bounded fan-out of the           *)
(* BatchProcessor and the per-file processor with its own database         *)
(* session per file.                                                       *)
(***************************************************************************)
EXTENDS Integers, Sequences, FiniteSets, TLC

\* ------------------------------------------------------------------ bounds
NumFiles == 4          \* files a job's scan can find
ChunksPerFile == 2     \* chunks the chunker cuts a file into, at most
MaxPathLen == 4        \* symbols in a folder path fed to the hierarchy builder
MaxSentences == 3      \* sentences in a document's text
StreamFiles == 3       \* files handed to a streaming batch run
EmbedChunks == 3       \* chunks of the document whose embeddings are followed
RequestFiles == 3      \* files of one simple upload request

\* ------------------------------------------------------- program constants
max_concurrent_files == 3      \* BatchProcessor.__init__ default
progress_every == 5            \* "if results['total_processed'] % 5 == 0"

Files == 1..NumFiles

\* Content hash of a file: files 1 and 2 hold identical bytes, every other
\* file has bytes of its own.
file_hash(f) == IF f <= 2 THEN 1 ELSE f - 1

\* JobStatus
PENDING == "pending"
PROCESSING == "processing"
COMPLETED == "completed"
FAILED == "failed"
CANCELLED == "cancelled"
NOJOB == "nojob"
TerminalStatus == {COMPLETED, FAILED, CANCELLED}

\* DocumentStatus
DOC_PROCESSING == "PROCESSING"
DOC_COMPLETED == "COMPLETED"
DOC_FAILED == "FAILED"

VARIABLES
    job,          \* the upload_jobs row of the job
    docs,         \* kb_documents rows: records, committed or still private to a session
    chunks,       \* kb_chunks rows: [doc, idx]
    taskPc,       \* position of the _process_job_async task
    active,       \* job_id in upload_manager.active_jobs
    results,      \* the results dict of process_file_batch
    batchCall,    \* how the process_file_batch call ended
    pc,           \* position of each file's process_single_file task
    ret,          \* what each finished file task handed to the fan-out
    pending,      \* the dict each file's processor put in its return statement
    outcome,      \* what happened to the file inside the processor: "ingested",
                  \* "nothing_stored" (no chunk, or no chunk embedded), "duplicate",
                  \* "unreadable", "multiple_rows" or "raised"
    existing,     \* the document the duplicate check of a file found (0: none)
    consumed,     \* files whose task the as_completed loop has awaited
    startResult,  \* outcome of the last start_processing_job call
    cancelPc,     \* position of the cancel route handler
    cancelled,    \* upload_manager.cancel_job has run
    snapshot,     \* the dict the last job-status call returned
    folder_nodes, \* folder_nodes rows of the collection
    folder_docs,  \* kb_documents rows of the collection: [id, folder_path]
    inPaths,      \* the folder paths the callers of the hierarchy builder hold
    lastPaths,    \* folder_paths of the last create_folder_structure call
    lastCreated,  \* len(created_folders) of that call
    repeated,     \* that call was fed the same paths as the call before it
    statsCall,    \* how update_folder_statistics ended, if it ran since the
                  \* folder table last changed: "none", "returned", "raised"
    zipPc,        \* the ZIP upload of the scenario: "none" or "done"
    chunker,      \* the DocumentProcessor: [max_chunk_size, overlap_size]
    sentences,    \* what _split_into_sentences made of the document's text
    text_chunks,  \* the list create_chunks returned
    chunkPc,      \* "text", "chunked" or "stored"
    stored_rows,  \* kb_chunks rows written for the document
    events,       \* the dicts process_file_batch_streaming handed to its
                  \* progress callback, in order
    staging,      \* an upload's files on disk and what has been done with them
    embedding,    \* the embedding calls made for the chunks of one document
    request       \* one request of the simple upload route and its session

vars == <<job, docs, chunks, taskPc, active, results, batchCall,
          pc, ret, pending, outcome, existing, consumed, startResult,
          cancelPc, cancelled, snapshot,
          folder_nodes, folder_docs, inPaths, lastPaths, lastCreated,
          repeated, statsCall, zipPc,
          chunker, sentences, text_chunks, chunkPc, stored_rows,
          events, staging, embedding, request>>

jobVars == <<job, taskPc, active, results, batchCall, consumed, startResult,
             cancelPc, cancelled>>
fileVars == <<docs, chunks, pc, ret, pending, outcome, existing>>
managerVars == <<jobVars, fileVars>>
folderVars == <<folder_nodes, folder_docs, inPaths, lastPaths, lastCreated,
                repeated, statsCall, zipPc>>
chunkVars == <<chunker, sentences, text_chunks, chunkPc, stored_rows>>
streamVars == <<events>>
\* What only the scenarios after the chunker touch.
restVars == <<streamVars, staging, embedding, request>>
\* What the upload job machinery never touches.
otherVars == <<snapshot, folderVars, chunkVars, restVars>>

\* ----------------------------------------------------------------- values
\* The value a Python call hands back: a dict or None.
NoneResult == [kind |-> "None", success |-> FALSE, skipped |-> FALSE,
               doc |-> 0, nchunks |-> 0, error |-> "none"]
SuccessResult(d, n) == [kind |-> "dict", success |-> TRUE, skipped |-> FALSE,
                        doc |-> d, nchunks |-> n, error |-> "none"]
SkippedResult == [kind |-> "dict", success |-> TRUE, skipped |-> TRUE,
                  doc |-> 0, nchunks |-> 0, error |-> "none"]
FailureResult(e) == [kind |-> "dict", success |-> FALSE, skipped |-> FALSE,
                     doc |-> 0, nchunks |-> 0, error |-> e]

EmptyResults == [total_processed |-> 0, successful |-> {}, failed |-> {},
                 errors |-> <<>>]

NewJob == [status |-> PENDING, total_files |-> 0, processed_files |-> 0,
           successful_files |-> 0, failed_files |-> 0, error_log |-> <<>>]

\* No job-status call has returned yet.
NoSnapshot == [by |-> "none"]

\* No document, no job task, no file task, no call under way.
NoTask ==
    /\ docs = {}
    /\ chunks = {}
    /\ taskPc = "none"
    /\ active = FALSE
    /\ results = EmptyResults
    /\ batchCall = "none"
    /\ pc = [f \in Files |-> "nofile"]
    /\ ret = [f \in Files |-> NoneResult]
    /\ pending = [f \in Files |-> NoneResult]
    /\ outcome = [f \in Files |-> "none"]
    /\ existing = [f \in Files |-> 0]
    /\ consumed = {}
    /\ startResult = "none"
    /\ cancelPc = "idle"
    /\ cancelled = FALSE

ManagerInit ==
    /\ job = [NewJob EXCEPT !.status = NOJOB]
    /\ NoTask

\* A collection without folders and without documents, no call made.
NoFolders ==
    /\ folder_nodes = {}
    /\ folder_docs = {}
    /\ inPaths = {}
    /\ lastPaths = {}
    /\ lastCreated = 0
    /\ repeated = FALSE
    /\ statsCall = "none"
    /\ zipPc = "none"

\* No streaming batch run, no callback call.
NoStream == events = <<>>

\* No upload staged, no embedding call made, no simple upload request.
NoStaging == [pc |-> "none"]
NoEmbedding == [pc |-> "none"]
NoRequest == [pc |-> "none"]

\* None of the scenarios after the chunker has begun.
NoRest ==
    /\ NoStream
    /\ staging = NoStaging
    /\ embedding = NoEmbedding
    /\ request = NoRequest

\* The default chunker and no text.
NoText ==
    /\ chunker = [max_chunk_size |-> 1000, overlap_size |-> 200]
    /\ sentences = <<>>
    /\ text_chunks = <<>>
    /\ chunkPc = "text"
    /\ stored_rows = {}

Init ==
    /\ ManagerInit
    /\ snapshot = NoSnapshot
    /\ NoFolders
    /\ NoText
    /\ NoRest

\* ------------------------------------------------------------ UploadManager
\* create_upload_job: the row is added in status pending with zero counters.
create_upload_job ==
    /\ job.status = NOJOB
    /\ job' = NewJob
    /\ UNCHANGED <<fileVars, taskPc, active, results, batchCall, consumed,
                   startResult, cancelPc, cancelled>>
    /\ UNCHANGED otherVars

\* start_processing_job: a pending job becomes processing and the background
\* task is created; any other status raises ValueError inside the try, and
\* the except clause writes status FAILED before re-raising.
start_processing_job ==
    /\ job.status # NOJOB
    /\ IF job.status = PENDING
          THEN /\ job' = [job EXCEPT !.status = PROCESSING]
               /\ taskPc' = "scan"
               /\ active' = TRUE
               /\ startResult' = "started"
          ELSE /\ job' = [job EXCEPT !.status = FAILED]
               /\ startResult' = "rejected"
               /\ UNCHANGED <<taskPc, active>>
    /\ UNCHANGED <<fileVars, results, batchCall, consumed, cancelPc, cancelled>>
    /\ UNCHANGED otherVars

\* The entry the except clause of _process_job_async logs: a dict with the
\* keys "error" and "timestamp".
job_error_entry == [error |-> "job_error", timestamp |-> "now"]

\* Mutant of job_exception_update: the except clause also reports every file
\* of the job as processed.
job_exception_update_all_processed(j) ==
    [j EXCEPT !.status = FAILED, !.error_log = <<job_error_entry>>,
              !.processed_files = j.total_files]

\* The except clause of _process_job_async: status FAILED and a one-entry
\* error log; the counters are not part of the update.
job_exception_update(j) ==
    [j EXCEPT !.status = FAILED, !.error_log = <<job_error_entry>>]

\* _process_job_async up to the call of process_file_batch: the file list is
\* built (n files found, or the scan raises), total_files is committed, an
\* empty list completes the job at once, otherwise process_file_batch creates
\* one task per file (asyncio.as_completed schedules them all).
process_job_scan ==
    /\ taskPc = "scan"
    /\ \/ /\ job' = job_exception_update(job)
          /\ taskPc' = "finished"
          /\ active' = FALSE
          /\ UNCHANGED <<pc, batchCall>>
       \/ \E n \in 0..NumFiles :
            IF n = 0
               THEN /\ job' = [job EXCEPT !.total_files = 0, !.status = COMPLETED]
                    /\ taskPc' = "finished"
                    /\ active' = FALSE
                    /\ UNCHANGED <<pc, batchCall>>
               ELSE /\ job' = [job EXCEPT !.total_files = n]
                    /\ taskPc' = "loop"
                    /\ batchCall' = "running"
                    /\ pc' = [f \in Files |-> IF f <= n THEN "waiting" ELSE "nofile"]
                    /\ UNCHANGED active
    /\ UNCHANGED <<docs, chunks, ret, pending, outcome, existing,
                   results, consumed, startResult, cancelPc, cancelled>>
    /\ UNCHANGED otherVars

\* ----------------------------------------------------------- BatchProcessor
InFlight == {f \in Files : pc[f] \in {"checking", "created"}}

\* Mutant of semaphore_free: the fan-out without the semaphore.
semaphore_free_unbounded == TRUE

\* "async with semaphore": a file task enters only while fewer than
\* max_concurrent_files tasks hold the semaphore.
semaphore_free == Cardinality(InFlight) < max_concurrent_files

acquire_semaphore(f) ==
    /\ pc[f] = "waiting"
    /\ semaphore_free
    /\ pc' = [pc EXCEPT ![f] = "checking"]
    /\ UNCHANGED <<jobVars, docs, chunks, ret, pending, outcome,
                   existing>>
    /\ UNCHANGED otherVars

\* Mutant of process_single_document_return: the dict being returned reaches
\* the caller.
process_single_document_return_dict(r) == r

\* What _process_single_document hands back.  Every return statement of the
\* function sits in a try whose finally clause is "break": the break discards
\* the pending return value, the loop ends and the function falls off its
\* end, so the caller receives None whatever dict r was being returned.
process_single_document_return(r) == NoneResult

\* The primary key the database gives the row an upload inserts: unique per
\* row; the model names it after the inserting upload.
new_document_id(f) == f

\* Rows a session's SELECT sees: the committed ones.
Visible == {d \in docs : d.committed}

\* _process_single_document, first part: hash the file, look the hash up in
\* the collection, return "skipped" on a hit, otherwise add and flush the
\* document row in status PROCESSING (not yet committed).
check_duplicate(f) ==
    /\ pc[f] = "checking"
    /\ LET hits == {d \in Visible : d.hash = file_hash(f)} IN
       \/ \* the file cannot be read: the hash raises before a row exists
          /\ outcome' = [outcome EXCEPT ![f] = "unreadable"]
          /\ pending' = [pending EXCEPT ![f] = FailureResult("hash_error")]
          /\ ret' = [ret EXCEPT ![f] =
                        process_single_document_return(FailureResult("hash_error"))]
          /\ pc' = [pc EXCEPT ![f] = "done"]
          /\ UNCHANGED <<docs, existing>>
       \/ /\ Cardinality(hits) = 1
          /\ outcome' = [outcome EXCEPT ![f] = "duplicate"]
          /\ existing' = [existing EXCEPT ![f] = (CHOOSE d \in hits : TRUE).id]
          /\ pending' = [pending EXCEPT ![f] = SkippedResult]
          /\ ret' = [ret EXCEPT ![f] = process_single_document_return(SkippedResult)]
          /\ pc' = [pc EXCEPT ![f] = "done"]
          /\ UNCHANGED docs
       \/ \* scalar_one_or_none raises MultipleResultsFound
          /\ Cardinality(hits) > 1
          /\ outcome' = [outcome EXCEPT ![f] = "multiple_rows"]
          /\ pending' = [pending EXCEPT ![f] = FailureResult("multiple_rows")]
          /\ ret' = [ret EXCEPT ![f] =
                        process_single_document_return(FailureResult("multiple_rows"))]
          /\ pc' = [pc EXCEPT ![f] = "done"]
          /\ UNCHANGED <<docs, existing>>
       \/ /\ hits = {}
          /\ docs' = docs \cup {[id |-> new_document_id(f), hash |-> file_hash(f),
                                 upload |-> f, status |-> DOC_PROCESSING,
                                 chunk_count |-> 0, error_message |-> "none",
                                 committed |-> FALSE]}
          /\ pc' = [pc EXCEPT ![f] = "created"]
          /\ UNCHANGED <<ret, pending, outcome, existing>>
    /\ UNCHANGED <<jobVars, chunks>>
    /\ UNCHANGED otherVars

\* DocumentProcessingPipeline.process_document, as seen by its caller: it
\* never raises.  With n chunks extracted and the chunks in `valid` embedded
\* it reports chunks_stored = |valid|; with no chunk, or no valid embedding,
\* it catches its own ProcessingError and returns a dict with status
\* "failed" that has no chunks_stored key.
pipeline_result(n, valid) ==
    IF n = 0 \/ valid = {}
       THEN [status |-> "failed", has_chunks_stored |-> FALSE, chunks_stored |-> 0]
       ELSE [status |-> "success", has_chunks_stored |-> TRUE,
             chunks_stored |-> Cardinality(valid)]

\* processing_result.get("chunks_stored", 0)
get_chunks_stored(r) == IF r.has_chunks_stored THEN r.chunks_stored ELSE 0

\* Mutant of status_after_pipeline: the status assignment is left out, the
\* commit stores the row as it was flushed.
status_after_pipeline_unset(r) == DOC_PROCESSING

\* The status _process_single_document gives the document once the pipeline
\* call has returned: COMPLETED, whatever the pipeline's dict says.
status_after_pipeline(r) == DOC_COMPLETED

\* The kb_chunks rows written for a document: one per chunk whose embedding
\* is valid, carrying that chunk's index.
chunk_rows(doc, indices) == {[doc |-> doc, idx |-> i] : i \in indices}

\* Mutant of session_rollback: the files share one session, so the rollback
\* discards every row not yet committed.
session_rollback_shared(rows, f) == {x \in rows : x.committed}

\* doc_db.rollback(): doc_db is the session get_db() made for this file
\* alone, so the rollback discards the rows this file's processing flushed
\* and has not committed.
session_rollback(rows, f) == {x \in rows : x.committed \/ x.upload # f}

\* _process_single_document, second part: run the pipeline on the flushed
\* document, then set status and chunk_count and commit; an exception raised
\* on the way (embedding-model lookup, flush, commit) marks the document
\* FAILED with the error text and commits that, or rolls the session back
\* when that commit fails as well.  Only the outcomes "no chunk", "no chunk
\* embedded" and "all ChunksPerFile chunks embedded" are drawn here.
process_document(f) ==
    /\ pc[f] = "created"
    /\ LET d == CHOOSE x \in docs : x.upload = f /\ ~x.committed IN
       \/ \E n \in {0, ChunksPerFile} : \E valid \in {{}, 0..(n - 1)} :
            LET r == pipeline_result(n, valid)
                stored == get_chunks_stored(r) IN
            /\ docs' = (docs \ {d}) \cup
                         {[d EXCEPT !.status = status_after_pipeline(r),
                                    !.chunk_count = stored,
                                    !.committed = TRUE]}
            /\ chunks' = chunks \cup
                           (IF r.status = "success"
                               THEN chunk_rows(d.id, valid)
                               ELSE {})
            /\ outcome' = [outcome EXCEPT ![f] =
                              IF r.status = "failed" THEN "nothing_stored"
                                                     ELSE "ingested"]
            /\ pending' = [pending EXCEPT ![f] = SuccessResult(d.id, stored)]
            /\ ret' = [ret EXCEPT ![f] =
                          process_single_document_return(SuccessResult(d.id, stored))]
       \/ /\ \/ docs' = (docs \ {d}) \cup
                          {[d EXCEPT !.status = DOC_FAILED,
                                     !.error_message = "step_error",
                                     !.committed = TRUE]}
             \/ \* the commit of the FAILED status fails too: rollback
                docs' = session_rollback(docs, f)
          /\ outcome' = [outcome EXCEPT ![f] = "raised"]
          /\ pending' = [pending EXCEPT ![f] = FailureResult("step_error")]
          /\ ret' = [ret EXCEPT ![f] =
                        process_single_document_return(FailureResult("step_error"))]
          /\ UNCHANGED chunks
    /\ pc' = [pc EXCEPT ![f] = "done"]
    /\ UNCHANGED <<jobVars, existing>>
    /\ UNCHANGED otherVars

\* What process_file_batch appends to results["errors"] for a failed file:
\* result["error"], the error text alone.
file_error_entry(result) == [error |-> result.error]

\* _update_job_progress: an unconditional UPDATE of the three counters.
update_job_progress(j, processed, successful, failed) ==
    [j EXCEPT !.processed_files = processed,
              !.successful_files = successful,
              !.failed_files = failed]

\* The final update of _process_job_async after process_file_batch returned.
final_job_update(j, res) ==
    [j EXCEPT !.status = COMPLETED,
              !.processed_files = res.total_processed,
              !.successful_files = Cardinality(res.successful),
              !.failed_files = Cardinality(res.failed),
              !.error_log = IF res.errors # <<>> THEN res.errors ELSE @]

\* One turn of "for task in asyncio.as_completed(tasks)" in
\* process_file_batch, run inside _process_job_async: await a finished file
\* task, count it, read result["success"] (a TypeError when the result is
\* None, which leaves process_file_batch and lands in the except clause of
\* _process_job_async), call the progress callback (which passes
\* last_result.get("successful_count", 0) and get("failed_count", 0), keys
\* no result has), write the counters every fifth file, and after the last
\* file return to _process_job_async, which writes the final status.
batch_loop ==
    /\ taskPc = "loop"
    /\ \E f \in Files :
         /\ pc[f] = "done"
         /\ f \notin consumed
         /\ LET result == ret[f]
                counted == [results EXCEPT !.total_processed = @ + 1] IN
            IF result.kind = "None"
               THEN /\ results' = counted
                    /\ consumed' = {}
                    /\ batchCall' = "raised"
                    /\ job' = job_exception_update(job)
                    /\ taskPc' = "finished"
                    /\ active' = FALSE
               ELSE LET res == IF result.success
                                  THEN [counted EXCEPT !.successful = @ \cup {f}]
                                  ELSE [counted EXCEPT !.failed = @ \cup {f},
                                                       !.errors = Append(@, file_error_entry(result))]
                        j1 == update_job_progress(job, res.total_processed, 0, 0)
                        j2 == IF res.total_processed % progress_every = 0
                                 THEN update_job_progress(j1, res.total_processed,
                                          Cardinality(res.successful),
                                          Cardinality(res.failed))
                                 ELSE j1
                    IN /\ results' = res
                       /\ consumed' = consumed \cup {f}
                       /\ IF res.total_processed = job.total_files
                             THEN /\ batchCall' = "returned"
                                  /\ job' = final_job_update(j2, res)
                                  /\ taskPc' = "finished"
                                  /\ active' = FALSE
                             ELSE /\ job' = j2
                                  /\ UNCHANGED <<batchCall, taskPc, active>>
    /\ UNCHANGED <<fileVars, startResult, cancelPc, cancelled>>
    /\ UNCHANGED otherVars

\* The cancel route: read the job's status and refuse a terminal job ...
cancel_upload_job ==
    /\ cancelPc = "idle"
    /\ job.status # NOJOB
    /\ cancelPc' = IF job.status \in TerminalStatus THEN "idle" ELSE "cancel"
    /\ UNCHANGED <<fileVars, job, taskPc, active, results, batchCall, consumed,
                   startResult, cancelled>>
    /\ UNCHANGED otherVars

\* ... then UploadManager.cancel_job: cancel the job task if it is in
\* active_jobs and write status CANCELLED, whatever the status is by now.
\* Cancelling the job task does not cancel the file tasks as_completed made.
cancel_job ==
    /\ cancelPc = "cancel"
    /\ cancelPc' = "idle"
    /\ cancelled' = TRUE
    /\ IF active
          THEN /\ taskPc' = "cancelled"
               /\ active' = FALSE
               /\ batchCall' = IF batchCall = "running" THEN "cancelled" ELSE batchCall
          ELSE UNCHANGED <<taskPc, active, batchCall>>
    /\ job' = [job EXCEPT !.status = CANCELLED]
    /\ UNCHANGED <<fileVars, results, consumed, startResult>>
    /\ UNCHANGED otherVars

Next ==
    \/ create_upload_job
    \/ start_processing_job
    \/ process_job_scan
    \/ \E f \in Files : acquire_semaphore(f)
    \/ \E f \in Files : check_duplicate(f)
    \/ \E f \in Files : process_document(f)
    \/ batch_loop
    \/ cancel_upload_job
    \/ cancel_job

Spec == Init /\ [][Next]_vars

\* ------------------------------------------------------------ job status view
\* A percentage is kept as the exact fraction num/den.
Percentage(num, den) == [num |-> num, den |-> den]
SamePercentage(a, b) == a.num * b.den = b.num * a.den

\* round(x, 1) of a non-negative fraction, as a fraction over 10 (no value
\* within the bounds lies halfway between two tenths).
round1(x) == Percentage((2 * 10 * x.num + x.den) \div (2 * x.den), 10)

\* UploadManager.get_job_status: the dict built from the job row; its
\* percentage is processed_files / total_files * 100 whatever the status,
\* and 0 when total_files is 0.
get_job_status_dict(j) ==
    [by |-> "get_job_status",
     status |-> j.status,
     total_files |-> j.total_files,
     processed_files |-> j.processed_files,
     successful_files |-> j.successful_files,
     failed_files |-> j.failed_files,
     percentage |-> IF j.total_files # 0
                       THEN Percentage(j.processed_files * 100, j.total_files)
                       ELSE Percentage(0, 1)]

\* UploadJob.to_dict: the percentage follows processed_files while the
\* status is "processing" and successful_files otherwise, rounded to one
\* decimal.
to_dict(j) ==
    [by |-> "to_dict",
     status |-> j.status,
     total_files |-> j.total_files,
     processed_files |-> j.processed_files,
     successful_files |-> j.successful_files,
     failed_files |-> j.failed_files,
     percentage |-> round1(
         IF j.status = PROCESSING /\ j.total_files > 0
            THEN Percentage(j.processed_files * 100, j.total_files)
            ELSE IF j.total_files > 0
                    THEN Percentage(j.successful_files * 100, j.total_files)
                    ELSE Percentage(0, 1))]

\* The upload_jobs rows the status operations are applied to: any status,
\* up to NumFiles files, counters within one another (every triple of
\* counters can be written by _update_job_progress under any status).
JobRows ==
    {r \in [status : {PENDING, PROCESSING} \cup TerminalStatus,
            total_files : 0..NumFiles, processed_files : 0..NumFiles,
            successful_files : 0..NumFiles, failed_files : 0..NumFiles,
            error_log : {<<>>}] :
        /\ r.processed_files <= r.total_files
        /\ r.successful_files + r.failed_files <= r.processed_files}

InitStatus ==
    /\ job \in JobRows
    /\ NoTask
    /\ snapshot = NoSnapshot
    /\ NoFolders
    /\ NoText
    /\ NoRest

\* The status route asks the manager for the job's status.
get_job_status ==
    /\ job.status # NOJOB
    /\ snapshot' = get_job_status_dict(job)
    /\ UNCHANGED <<managerVars, folderVars, chunkVars, restVars>>

\* The same row seen through the model's own to_dict.
job_to_dict ==
    /\ job.status # NOJOB
    /\ snapshot' = to_dict(job)
    /\ UNCHANGED <<managerVars, folderVars, chunkVars, restVars>>

NextStatus ==
    \/ get_job_status
    \/ job_to_dict

SpecStatus == InitStatus /\ [][NextStatus]_vars

\* ------------------------------------------------------- folder hierarchy
\* A path string is a sequence of symbols; "/" is the separator and every
\* other symbol stands for a character (or a whole name) without a slash.
Sep == "/"
PathAlphabet == {"a", Sep}
PathInputs == UNION {[1..n -> PathAlphabet] : n \in 0..MaxPathLen}

\* The order Python's sorted() gives strings: symbol by symbol.
SymbolOrder == <<".", Sep, "a", "b", "c", "job", "long_article_uploads",
                 "notes.txt", "report.pdf", "tmp">>
SymbolRank(c) == CHOOSE i \in 1..Len(SymbolOrder) : SymbolOrder[i] = c

RECURSIVE str_less(_, _)
str_less(x, y) ==
    IF x = <<>> THEN y # <<>>
    ELSE IF y = <<>> THEN FALSE
    ELSE IF Head(x) = Head(y) THEN str_less(Tail(x), Tail(y))
    ELSE SymbolRank(Head(x)) < SymbolRank(Head(y))

\* sorted(set(folder_paths))
RECURSIVE sorted(_)
sorted(S) ==
    IF S = {} THEN <<>>
    ELSE LET m == CHOOSE x \in S : \A y \in S \ {x} : str_less(x, y)
         IN <<m>> \o sorted(S \ {m})

\* [part for part in path.split('/') if part]
RECURSIVE split_from(_, _, _)
split_from(path, i, cur) ==
    IF i > Len(path)
       THEN (IF cur = <<>> THEN <<>> ELSE <<cur>>)
       ELSE IF path[i] = Sep
               THEN (IF cur = <<>> THEN <<>> ELSE <<cur>>) \o split_from(path, i + 1, <<>>)
               ELSE split_from(path, i + 1, Append(cur, path[i]))

path_parts(path) == split_from(path, 1, <<>>)

\* current_path = f"{current_path}/{part}" if current_path else part
join_path(current_path, part) ==
    IF current_path # <<>> THEN current_path \o <<Sep>> \o part ELSE part

NoParent == 0

\* The id the database gives a flushed folder row (auto-increment; no row
\* of the table is ever deleted here).
next_folder_id(nodes) == Cardinality(nodes) + 1

\* Mutant of find_existing: the lookup that never finds a row.
find_existing_nothing(nodes, current_path) == {}

\* select(FolderNode).where(collection_id == ..., full_path == current_path)
find_existing(nodes, current_path) == {n \in nodes : n.full_path = current_path}

\* Mutant of node_depth: depth counted from one.
node_depth_from_one(i) == i + 1

\* depth = i, the index enumerate() gives the part
node_depth(i) == i

cache_has(cache, path) == \E e \in cache : e.path = path
cache_id(cache, path) == (CHOOSE e \in cache : e.path = path).id

\* The inner loop of create_folder_structure over the parts of one path,
\* from part number i (counted from 0): reuse the cached or stored node of
\* each prefix, create the missing ones under the current parent.
RECURSIVE walk_parts(_, _, _, _, _)
walk_parts(st, parts, i, current_path, parent_id) ==
    IF st.raised \/ i >= Len(parts) THEN st
    ELSE LET part == parts[i + 1]
             cp == join_path(current_path, part)
         IN IF cache_has(st.cache, cp)
               THEN walk_parts(st, parts, i + 1, cp, cache_id(st.cache, cp))
               ELSE LET hits == find_existing(st.nodes, cp) IN
                    IF Cardinality(hits) > 1
                       THEN [st EXCEPT !.raised = TRUE]   \* scalar_one_or_none raises
                       ELSE IF hits # {}
                               THEN LET e == CHOOSE n \in hits : TRUE IN
                                    walk_parts([st EXCEPT !.cache = @ \cup {[path |-> cp, id |-> e.id]}],
                                               parts, i + 1, cp, e.id)
                               ELSE LET new == [id |-> next_folder_id(st.nodes),
                                                name |-> part, full_path |-> cp,
                                                parent_id |-> parent_id,
                                                depth |-> node_depth(i),
                                                document_count |-> 0,
                                                total_documents |-> 0] IN
                                    walk_parts([st EXCEPT !.nodes = @ \cup {new},
                                                          !.cache = @ \cup {[path |-> cp, id |-> new.id]},
                                                          !.created = @ + 1],
                                               parts, i + 1, cp, new.id)

\* The outer loop of create_folder_structure over the sorted paths.
RECURSIVE build_paths(_, _)
build_paths(st, paths) ==
    IF paths = <<>> \/ st.raised THEN st
    ELSE LET path == Head(paths) IN
         IF path = <<>> \/ cache_has(st.cache, path)
            THEN build_paths(st, Tail(paths))
            ELSE LET parts == path_parts(path) IN
                 IF parts = <<>>
                    THEN build_paths(st, Tail(paths))
                    ELSE build_paths(walk_parts(st, parts, 0, <<>>, NoParent),
                                     Tail(paths))

\* What one call of create_folder_structure computes from the table.
folder_structure(nodes, folder_paths) ==
    build_paths([nodes |-> nodes, cache |-> {}, created |-> 0, raised |-> FALSE],
                sorted(folder_paths))

\* FolderHierarchyService.create_folder_structure, one call (one database
\* transaction): the nodes it leaves, the number it created.
create_folder_structure(folder_paths) ==
    /\ LET st == folder_structure(folder_nodes, folder_paths) IN
       /\ folder_nodes' = IF st.raised THEN folder_nodes ELSE st.nodes
       /\ lastCreated' = IF st.raised THEN 0 ELSE st.created
    /\ repeated' = (folder_paths = lastPaths)
    /\ lastPaths' = folder_paths
    /\ statsCall' = "none"
    /\ UNCHANGED <<folder_docs, inPaths, zipPc>>
    /\ UNCHANGED <<managerVars, snapshot, chunkVars, restVars>>

\* The names the module folder_hierarchy binds at import: Column, Integer,
\* ..., relationship, func, typing names, datetime and BaseModel.  KBDocument
\* is not one of them, so evaluating it inside update_folder_statistics
\* raises NameError.
KBDocument_bound == FALSE

is_prefix(p, x) == Len(x) >= Len(p) /\ SubSeq(x, 1, Len(p)) = p

\* KBDocument.folder_path == folder.full_path
direct_count(documents, n) ==
    Cardinality({d \in documents : d.folder_path = n.full_path})

\* KBDocument.folder_path.like(f"{folder.full_path}/%")
subfolder_count(documents, n) ==
    Cardinality({d \in documents : is_prefix(n.full_path \o <<Sep>>, d.folder_path)})

\* The loop of update_folder_statistics over the folders, deepest first:
\* each row's counts come from the documents alone.
with_statistics(nodes, documents) ==
    {[n EXCEPT !.document_count = direct_count(documents, n),
               !.total_documents = direct_count(documents, n)
                                     + subfolder_count(documents, n)] : n \in nodes}

\* FolderHierarchyService.update_folder_statistics (rebuild_statistics): with
\* no folder the loop body never runs; with a folder its first statement
\* evaluates KBDocument.
update_folder_statistics ==
    /\ IF folder_nodes = {}
          THEN statsCall' = "returned" /\ UNCHANGED folder_nodes
          ELSE IF KBDocument_bound
                  THEN /\ folder_nodes' = with_statistics(folder_nodes, folder_docs)
                       /\ statsCall' = "returned"
                  ELSE statsCall' = "raised" /\ UNCHANGED folder_nodes
    /\ UNCHANGED <<folder_docs, inPaths, lastPaths, lastCreated, repeated, zipPc>>
    /\ UNCHANGED <<managerVars, snapshot, chunkVars, restVars>>

\* The ZIP of the scenario and the directory _process_job_async extracts it
\* into: tempfile.gettempdir() / "long_article_uploads" / job_id.
ZipEntries == {<<"a", Sep, "b", Sep, "report.pdf">>,
               <<"a", Sep, "c", Sep, "notes.txt">>}
temp_extract_dir == <<Sep, "tmp", Sep, "long_article_uploads", Sep, "job">>

\* extract_zip_folder: everything is extracted under extract_to; when the
\* extraction holds a single item and it is a directory, that directory is
\* returned as the root, otherwise extract_to.
extract_zip_folder(entries, extract_to) ==
    LET items == {path_parts(e)[1] : e \in entries}
        dirs == {path_parts(e)[1] : e \in {x \in entries : Len(path_parts(x)) > 1}}
    IN IF Cardinality(items) = 1 /\ items \subseteq dirs
          THEN extract_to \o <<Sep>> \o (CHOOSE i \in items : TRUE)
          ELSE extract_to

\* scan_folder_structure: os.walk(root); every file gets its path and its
\* path relative to root.
scan_folder_structure(root, extracted) ==
    {[path |-> x, relative_path |-> SubSeq(x, Len(root) + 2, Len(x))] :
        x \in {y \in extracted : is_prefix(root \o <<Sep>>, y)}}

last_sep(path) ==
    IF \E i \in 1..Len(path) : path[i] = Sep
       THEN CHOOSE i \in 1..Len(path) :
               path[i] = Sep /\ \A k \in (i + 1)..Len(path) : path[k] # Sep
       ELSE 0

\* str(path.parent)
str_parent(path) ==
    IF last_sep(path) = 0 THEN <<".">>
    ELSE IF last_sep(path) = 1 THEN <<Sep>>
    ELSE SubSeq(path, 1, last_sep(path) - 1)

\* FileInfo.__init__: folder_path is str(path.parent) (the name of a parent
\* is never '.', Path('.').name being ''), less a leading slash.
FileInfo_folder_path(path) ==
    LET parent == str_parent(path) IN
    IF Head(parent) = Sep
       THEN (IF Len(parent) > 1 THEN Tail(parent) ELSE <<>>)
       ELSE parent

\* A ZIP upload into the empty collection (no other caller feeds the
\* builder), as far as folders go: extract, scan, build the FileInfo of
\* every file, run the batch.
\* process_file_batch (the call _process_job_async makes) never calls the
\* hierarchy builder; process_file_batch_streaming calls it with the files'
\* folder_path values.
process_zip_batch ==
    /\ zipPc = "none"
    /\ folder_nodes = {}
    /\ inPaths = {<<>>}
    /\ zipPc' = "done"
    /\ LET extracted == {temp_extract_dir \o <<Sep>> \o e : e \in ZipEntries}
           root == extract_zip_folder(ZipEntries, temp_extract_dir)
           files == scan_folder_structure(root, extracted)
           folder_paths == {FileInfo_folder_path(f.path) : f \in files} \ {<<>>}
       IN \E streaming \in BOOLEAN :
            IF streaming /\ folder_paths # {}
               THEN folder_nodes' = folder_structure(folder_nodes, folder_paths).nodes
               ELSE UNCHANGED folder_nodes
    /\ UNCHANGED <<folder_docs, inPaths, lastPaths, lastCreated, repeated, statsCall>>
    /\ UNCHANGED <<managerVars, snapshot, chunkVars, restVars>>

\* The path a set of parts spells.
RECURSIVE joined(_, _)
joined(current_path, parts) ==
    IF parts = <<>> THEN current_path
    ELSE joined(join_path(current_path, Head(parts)), Tail(parts))

\* The callers hold one or two path strings; the collection holds one
\* document filed under each of the folders they spell.
InitFolders ==
    /\ job = [NewJob EXCEPT !.status = NOJOB]
    /\ NoTask
    /\ snapshot = NoSnapshot
    /\ NoText
    /\ NoRest
    /\ folder_nodes = {}
    /\ inPaths \in {{x, y} : x \in PathInputs, y \in PathInputs}
    /\ folder_docs = {[id |-> x, folder_path |-> joined(<<>>, path_parts(x))] :
                        x \in {y \in inPaths : path_parts(y) # <<>>}}
    /\ lastPaths = {}
    /\ lastCreated = 0
    /\ repeated = FALSE
    /\ statsCall = "none"
    /\ zipPc = "none"

NextFolders ==
    \/ \E folder_paths \in (SUBSET inPaths) \ {{}} :
          create_folder_structure(folder_paths)
    \/ update_folder_statistics
    \/ process_zip_batch

SpecFolders == InitFolders /\ [][NextFolders]_vars

\* ------------------------------------------------------------------ chunker
\* Text is a sequence of symbols: " " and "x" for any other character.
word(n) == [i \in 1..n |-> "x"]

\* One element of _split_into_sentences' result, s.strip() + ' ', for a
\* sentence of the words ws (by length), single spaces between them.
RECURSIVE words_text(_)
words_text(ws) ==
    IF Len(ws) = 1 THEN word(ws[1])
    ELSE word(Head(ws)) \o <<" ">> \o words_text(Tail(ws))

sentence_text(ws) == words_text(ws) \o <<" ">>

\* "if len(s.strip()) > 10"
min_sentence_len == 10

WordLens == {3, 6, 11}
SentenceInputs ==
    {sentence_text(ws) : ws \in {w \in UNION {[1..n -> WordLens] : n \in 1..2} :
                                    Len(words_text(w)) > min_sentence_len}}

RECURSIVE lstrip(_)
lstrip(text) ==
    IF text # <<>> /\ Head(text) = " " THEN lstrip(Tail(text)) ELSE text

RECURSIVE rstrip(_)
rstrip(text) ==
    IF text # <<>> /\ text[Len(text)] = " "
       THEN rstrip(SubSeq(text, 1, Len(text) - 1)) ELSE text

\* str.strip()
strip(text) == rstrip(lstrip(text))

\* text[-n:]
last_chars(text, n) ==
    IF n = 0 \/ n >= Len(text) THEN text
    ELSE SubSeq(text, Len(text) - n + 1, Len(text))

\* str.find(' '): the index, counted from 0, of the first space, or -1
find_space(text) ==
    IF \E i \in 1..Len(text) : text[i] = " "
       THEN (CHOOSE i \in 1..Len(text) :
                text[i] = " " /\ \A k \in 1..(i - 1) : text[k] # " ") - 1
       ELSE -1

\* _get_overlap_text
get_overlap_text(text, overlap_size) ==
    IF Len(text) <= overlap_size THEN text
    ELSE LET overlap_text == last_chars(text, overlap_size)
             space_index == find_space(overlap_text)
         IN IF space_index > 0
               THEN SubSeq(overlap_text, space_index + 1, Len(overlap_text)) \o <<" ">>
               ELSE overlap_text \o <<" ">>

\* TextChunk(text=current_chunk.strip(), chunk_index, char_count, start_pos,
\* end_pos)
TextChunk(current_chunk, chunk_index, current_start) ==
    [text |-> strip(current_chunk),
     chunk_index |-> chunk_index,
     char_count |-> Len(strip(current_chunk)),
     start_pos |-> current_start,
     end_pos |-> current_start + Len(current_chunk)]

\* "if len(current_chunk) + len(sentence) > self.max_chunk_size and
\* current_chunk"
chunk_is_full(c, current_chunk, sentence) ==
    Len(current_chunk) + Len(sentence) > c.max_chunk_size /\ current_chunk # <<>>

\* The loop of create_chunks over the sentences from number i on, and the
\* final chunk.
RECURSIVE chunk_loop(_, _, _, _, _, _)
chunk_loop(c, sents, i, out, current_chunk, current_start) ==
    IF i > Len(sents)
       THEN IF strip(current_chunk) # <<>>
               THEN Append(out, TextChunk(current_chunk, Len(out), current_start))
               ELSE out
       ELSE LET sentence == sents[i] IN
            IF chunk_is_full(c, current_chunk, sentence)
               THEN LET overlap_text == get_overlap_text(current_chunk, c.overlap_size)
                        next_chunk == overlap_text \o sentence
                    IN chunk_loop(c, sents, i + 1,
                                  Append(out, TextChunk(current_chunk, Len(out), current_start)),
                                  next_chunk,
                                  current_start + Len(next_chunk) - Len(overlap_text))
               ELSE chunk_loop(c, sents, i + 1, out, current_chunk \o sentence,
                               current_start)

\* create_chunks, from the sentence list on (no sentence: no chunk).
create_chunks_of(c, sents) ==
    IF sents = <<>> THEN <<>> ELSE chunk_loop(c, sents, 1, <<>>, <<>>, 0)

\* The chunkers a caller can construct and the sentence lists a text can
\* split into.
ChunkerInputs == [max_chunk_size : {20, 30}, overlap_size : {4, 8}]
SentenceLists == UNION {[1..n -> SentenceInputs] : n \in 0..MaxSentences}

InitChunks ==
    /\ job = [NewJob EXCEPT !.status = NOJOB]
    /\ NoTask
    /\ snapshot = NoSnapshot
    /\ NoFolders
    /\ NoRest
    /\ chunker \in ChunkerInputs
    /\ sentences \in SentenceLists
    /\ text_chunks = <<>>
    /\ chunkPc = "text"
    /\ stored_rows = {}

\* DocumentProcessor.create_chunks
create_chunks ==
    /\ chunkPc = "text"
    /\ text_chunks' = create_chunks_of(chunker, sentences)
    /\ chunkPc' = "chunked"
    /\ UNCHANGED <<chunker, sentences, stored_rows>>
    /\ UNCHANGED <<managerVars, snapshot, folderVars, restVars>>

\* DocumentProcessingPipeline.process_document, steps 2 to 3.5, for
\* document 1: the chunks at the positions in `valid` get a non-empty
\* embedding; each of them is stored with its own chunk_index; without any
\* the ProcessingError leaves no row.
pipeline_store_chunks ==
    /\ chunkPc = "chunked"
    /\ text_chunks # <<>>
    /\ \E valid \in SUBSET (1..Len(text_chunks)) :
          stored_rows' = chunk_rows(1, {text_chunks[k].chunk_index : k \in valid})
    /\ chunkPc' = "stored"
    /\ UNCHANGED <<chunker, sentences, text_chunks>>
    /\ UNCHANGED <<managerVars, snapshot, folderVars, restVars>>

\* SimpleDocumentProcessor.process_document, step 6, for document 1: a chunk
\* whose embedding fails on every attempt is skipped ("continue"), every
\* other chunk is stored with chunk_index = i, its number in enumerate().
simple_store_chunks ==
    /\ chunkPc = "chunked"
    /\ \E valid \in SUBSET (1..Len(text_chunks)) :
          stored_rows' = chunk_rows(1, {k - 1 : k \in valid})
    /\ chunkPc' = "stored"
    /\ UNCHANGED <<chunker, sentences, text_chunks>>
    /\ UNCHANGED <<managerVars, snapshot, folderVars, restVars>>

NextChunks ==
    \/ create_chunks
    \/ pipeline_store_chunks
    \/ simple_store_chunks

SpecChunks == InitChunks /\ [][NextChunks]_vars

\* Where the scan of an extracted upload finds file f, and the folder_path
\* its FileInfo gets from that.
staged_path(f) ==
    temp_extract_dir \o <<Sep>> \o
       (IF f % 2 = 1 THEN <<"a", Sep, "b", Sep, "report.pdf">>
                     ELSE <<"a", Sep, "c", Sep, "notes.txt">>)
file_folder_path(f) == FileInfo_folder_path(staged_path(f))

\* --------------------------------------------- process_file_batch_streaming
\* The files of the batch run.
StreamBatch == {f \in Files : pc[f] # "nofile"}

\* _update_job_status: the UPDATE names the columns start_time or end_time,
\* which upload_jobs does not have (its columns are started_at and
\* completed_at); the statement fails, the except clause logs it, and the
\* row keeps its status.
update_job_status(j, status) == j

\* A dict handed to the progress callback: its type and the keys the
\* ordering of events depends on (0 where the dict has no such key).
Event(type, file, processed, successful, failed) ==
    [type |-> type, file |-> file, processed |-> processed,
     successful |-> successful, failed |-> failed]

\* process_single_file_with_progress after the processor call: storing
\* result["processing_time"] raises TypeError when the processor handed back
\* None; the except clause then sends file_error and returns its own dict.
\* Otherwise file_complete is sent and the processor's dict returned.
stream_file_result(result) ==
    IF result.kind = "None" THEN FailureResult("type_error") ELSE result
stream_file_event(f, result) ==
    Event(IF result.kind = "None" THEN "file_error" ELSE "file_complete", f, 0, 0, 0)

\* Mutant of stream_count: a failed file is not entered in results["failed"].
stream_count_successes_only(res, f, result) ==
    [res EXCEPT !.total_processed = @ + 1,
                !.successful = IF result.success THEN @ \cup {f} ELSE @]

\* The counting of one awaited result in the as_completed loop.
stream_count(res, f, result) ==
    IF result.success
       THEN [res EXCEPT !.total_processed = @ + 1, !.successful = @ \cup {f}]
       ELSE [res EXCEPT !.total_processed = @ + 1, !.failed = @ \cup {f},
                        !.errors = Append(@, file_error_entry(result))]

\* A caller hands process_file_batch_streaming up to StreamFiles files of a
\* job.
InitStreaming ==
    /\ \E n \in 0..StreamFiles :
          /\ job = [NewJob EXCEPT !.total_files = n]
          /\ pc = [f \in Files |-> IF f <= n THEN "waiting" ELSE "nofile"]
    /\ docs = {}
    /\ chunks = {}
    /\ taskPc = "stream_start"
    /\ active = FALSE
    /\ results = EmptyResults
    /\ batchCall = "running"
    /\ ret = [f \in Files |-> NoneResult]
    /\ pending = [f \in Files |-> NoneResult]
    /\ outcome = [f \in Files |-> "none"]
    /\ existing = [f \in Files |-> 0]
    /\ consumed = {}
    /\ startResult = "none"
    /\ cancelPc = "idle"
    /\ cancelled = FALSE
    /\ snapshot = NoSnapshot
    /\ NoFolders
    /\ NoText
    /\ NoRest

\* The head of process_file_batch_streaming: the status write, then the
\* hierarchy builder for the distinct non-empty folder paths of the files
\* (an exception of the builder is logged and the run goes on).
stream_begin ==
    /\ taskPc = "stream_start"
    /\ taskPc' = "stream_loop"
    /\ job' = update_job_status(job, PROCESSING)
    /\ LET folder_paths == {file_folder_path(f) : f \in StreamBatch} \ {<<>>}
           st == folder_structure(folder_nodes, folder_paths) IN
       IF folder_paths # {}
          THEN /\ folder_nodes' = IF st.raised THEN folder_nodes ELSE st.nodes
               /\ lastCreated' = IF st.raised THEN 0 ELSE st.created
               /\ lastPaths' = folder_paths
          ELSE UNCHANGED <<folder_nodes, lastCreated, lastPaths>>
    /\ UNCHANGED <<folder_docs, inPaths, repeated, statsCall, zipPc>>
    /\ UNCHANGED <<fileVars, active, results, batchCall, consumed, startResult,
                   cancelPc, cancelled>>
    /\ UNCHANGED <<snapshot, chunkVars, restVars>>

\* process_single_file_with_progress, first part: take a slot of the
\* semaphore and send file_start.
stream_file_start(f) ==
    /\ taskPc = "stream_loop"
    /\ pc[f] = "waiting"
    /\ semaphore_free
    /\ pc' = [pc EXCEPT ![f] = "checking"]
    /\ events' = Append(events, Event("file_start", f, 0, 0, 0))
    /\ UNCHANGED <<jobVars, docs, chunks, ret, pending, outcome, existing>>
    /\ UNCHANGED <<snapshot, folderVars, chunkVars, staging, embedding, request>>

\* process_single_file_with_progress, second part: the processor call has
\* come back (r is the dict its return statement held; the rows it writes
\* are those of check_duplicate and process_document and play no part in
\* the events), the event for the file is sent and the slot given back.
stream_file_end(f) ==
    /\ pc[f] = "checking"
    /\ \E r \in {SuccessResult(f, 1), SkippedResult, FailureResult("step_error")} :
         LET result == process_single_document_return(r) IN
         /\ ret' = [ret EXCEPT ![f] = stream_file_result(result)]
         /\ events' = Append(events, stream_file_event(f, result))
    /\ pc' = [pc EXCEPT ![f] = "done"]
    /\ UNCHANGED <<jobVars, docs, chunks, pending, outcome, existing>>
    /\ UNCHANGED <<snapshot, folderVars, chunkVars, staging, embedding, request>>

\* One turn of the as_completed loop: await a finished file task, count its
\* result, send batch_progress, write the counters to the job row.
stream_loop ==
    /\ taskPc = "stream_loop"
    /\ \E f \in Files :
         /\ pc[f] = "done"
         /\ f \notin consumed
         /\ LET res == stream_count(results, f, ret[f]) IN
            /\ results' = res
            /\ consumed' = consumed \cup {f}
            /\ events' = Append(events,
                             Event("batch_progress", 0, res.total_processed,
                                   Cardinality(res.successful),
                                   Cardinality(res.failed)))
            /\ job' = update_job_progress(job, res.total_processed,
                                          Cardinality(res.successful),
                                          Cardinality(res.failed))
    /\ UNCHANGED <<fileVars, taskPc, active, batchCall, startResult, cancelPc,
                   cancelled>>
    /\ UNCHANGED <<snapshot, folderVars, chunkVars, staging, embedding, request>>

\* The tail of process_file_batch_streaming once every task was awaited:
\* the final status write, update_folder_statistics (its exception is
\* logged), the batch_complete event, return.
stream_finish ==
    /\ taskPc = "stream_loop"
    /\ consumed = StreamBatch
    /\ taskPc' = "finished"
    /\ batchCall' = "returned"
    /\ job' = update_job_status(job, IF results.failed = {} THEN COMPLETED ELSE FAILED)
    /\ statsCall' = IF folder_nodes = {} \/ KBDocument_bound THEN "returned"
                                                            ELSE "raised"
    /\ folder_nodes' = IF KBDocument_bound
                          THEN with_statistics(folder_nodes, folder_docs)
                          ELSE folder_nodes
    /\ events' = Append(events, Event("batch_complete", 0, 0, 0, 0))
    /\ UNCHANGED <<fileVars, active, results, consumed, startResult, cancelPc,
                   cancelled>>
    /\ UNCHANGED <<folder_docs, inPaths, lastPaths, lastCreated, repeated, zipPc>>
    /\ UNCHANGED <<snapshot, chunkVars, staging, embedding, request>>

NextStreaming ==
    \/ stream_begin
    \/ \E f \in Files : stream_file_start(f)
    \/ \E f \in Files : stream_file_end(f)
    \/ stream_loop
    \/ stream_finish

SpecStreaming == InitStreaming /\ [][NextStreaming]_vars

\* ------------------------------------------------------------ staged files
\* staging: [pc, upload_type, n, on_disk, deleted, read, next]: the upload's
\* n files, which of them are on disk, which were deleted, and what the
\* processor's read of each file found ("none": not read yet).
UploadTypes == {"zip", "folder", "multiple_files", "simple"}

\* An upload has arrived: the ZIP route has saved the archive, the batch
\* route has saved every file into its job directory, a folder job names a
\* directory that exists, the simple route holds the uploads in memory.
InitStaging ==
    /\ job = [NewJob EXCEPT !.status = NOJOB]
    /\ NoTask
    /\ snapshot = NoSnapshot
    /\ NoFolders
    /\ NoText
    /\ NoStream
    /\ embedding = NoEmbedding
    /\ request = NoRequest
    /\ \E t \in UploadTypes : \E n \in 0..NumFiles :
          staging = [pc |-> "staged", upload_type |-> t, n |-> n,
                     on_disk |-> IF t \in {"folder", "multiple_files"}
                                    THEN 1..n ELSE {},
                     deleted |-> {},
                     read |-> [f \in Files |-> "none"],
                     next |-> 1]

\* _process_job_async, ZIP job: extract_zip_folder puts the archive's files
\* under temp_dir / job_id.
stage_extract_zip ==
    /\ staging.pc = "staged"
    /\ staging.upload_type = "zip"
    /\ staging' = [staging EXCEPT !.pc = "extracted", !.on_disk = 1..staging.n]
    /\ UNCHANGED <<managerVars, snapshot, folderVars, chunkVars, streamVars,
                   embedding, request>>

\* _process_job_async up to the call of process_file_batch: the FileInfo
\* list is built (scan_folder_structure, or the path.exists() loop over
\* file_list); for a ZIP job the finally clause around extraction and scan
\* then removes temp_dir / job_id with everything in it.
stage_scan ==
    /\ \/ staging.pc = "extracted"
       \/ staging.pc = "staged" /\ staging.upload_type \in {"folder", "multiple_files"}
    /\ staging' = IF staging.upload_type = "zip"
                     THEN [staging EXCEPT !.pc = "processing",
                                          !.deleted = staging.on_disk,
                                          !.on_disk = {}]
                     ELSE [staging EXCEPT !.pc = "processing"]
    /\ UNCHANGED <<managerVars, snapshot, folderVars, chunkVars, streamVars,
                   embedding, request>>

\* What _calculate_file_hash finds when it opens the file.
read_file(on_disk, f) == IF f \in on_disk THEN "hashed" ELSE "missing"

\* _process_single_document for one file of the job: its first statement
\* opens file_info.path to hash it.
stage_process_file(f) ==
    /\ staging.pc = "processing"
    /\ f <= staging.n
    /\ staging.read[f] = "none"
    /\ staging' = [staging EXCEPT !.read[f] = read_file(staging.on_disk, f)]
    /\ UNCHANGED <<managerVars, snapshot, folderVars, chunkVars, streamVars,
                   embedding, request>>

\* upload_documents_simple, one file after the other: write the upload to a
\* NamedTemporaryFile, ...
simple_save_file ==
    /\ staging.upload_type = "simple"
    /\ staging.pc = "staged"
    /\ staging.next <= staging.n
    /\ staging' = [staging EXCEPT !.pc = "saved",
                                  !.on_disk = @ \cup {staging.next}]
    /\ UNCHANGED <<managerVars, snapshot, folderVars, chunkVars, streamVars,
                   embedding, request>>

\* ... hand it to SimpleDocumentProcessor.process_document, ...
simple_process_file ==
    /\ staging.pc = "saved"
    /\ staging' = [staging EXCEPT !.pc = "processed",
                                  !.read[staging.next] =
                                      read_file(staging.on_disk, staging.next)]
    /\ UNCHANGED <<managerVars, snapshot, folderVars, chunkVars, streamVars,
                   embedding, request>>

\* ... and unlink the temporary file.
simple_unlink_file ==
    /\ staging.pc = "processed"
    /\ staging' = [staging EXCEPT !.pc = "staged",
                                  !.on_disk = @ \ {staging.next},
                                  !.deleted = @ \cup {staging.next},
                                  !.next = @ + 1]
    /\ UNCHANGED <<managerVars, snapshot, folderVars, chunkVars, streamVars,
                   embedding, request>>

NextStaging ==
    \/ stage_extract_zip
    \/ stage_scan
    \/ \E f \in Files : stage_process_file(f)
    \/ simple_save_file
    \/ simple_process_file
    \/ simple_unlink_file

SpecStaging == InitStaging /\ [][NextStaging]_vars

\* -------------------------------------------------------- embedding calls
\* embedding: [pc, by, n, i, attempt, calls, pauses, status]: the document's
\* n chunks, the chunk being worked on, and for every chunk the number of
\* generate_embedding calls made, the number of pauses taken and whether it
\* is "todo", "embedded" or "failed".
EmbedIdx == 1..EmbedChunks
max_embedding_retries == 3

\* The two places that embed a document's chunks: SimpleDocumentProcessor
\* ("simple") and DocumentProcessingPipeline through
\* generate_embeddings_batch ("pipeline").
InitEmbedding ==
    /\ job = [NewJob EXCEPT !.status = NOJOB]
    /\ NoTask
    /\ snapshot = NoSnapshot
    /\ NoFolders
    /\ NoText
    /\ NoStream
    /\ staging = NoStaging
    /\ request = NoRequest
    /\ \E by \in {"simple", "pipeline"} : \E n \in 0..EmbedChunks :
          embedding = [pc |-> IF n = 0 THEN "done" ELSE "chunks", by |-> by,
                       n |-> n, i |-> 1, attempt |-> 0,
                       calls |-> [k \in EmbedIdx |-> 0],
                       pauses |-> [k \in EmbedIdx |-> 0],
                       status |-> [k \in EmbedIdx |-> "todo"]]

\* The loop moves on to the next chunk, or is over.
next_embedding_chunk(e) ==
    [e EXCEPT !.i = @ + 1, !.attempt = 0,
              !.pc = IF e.i = e.n THEN "done" ELSE "chunks"]

\* SimpleDocumentProcessor.process_document, one turn of
\* "for attempt in range(max_embedding_retries)" for the current chunk: the
\* call returns an embedding (break, the chunk is stored), or it raises;
\* after the last attempt the exception is re-raised and the except clause
\* of the chunk loop goes on with the next chunk, before that the loop
\* sleeps 2 seconds and tries again.
simple_embedding_attempt ==
    /\ embedding.pc = "chunks"
    /\ embedding.by = "simple"
    /\ LET e == embedding
           i == e.i
           called == [e EXCEPT !.calls[i] = @ + 1] IN
       \E ok \in BOOLEAN :
          embedding' =
             IF ok
                THEN next_embedding_chunk([called EXCEPT !.status[i] = "embedded"])
             ELSE IF e.attempt = max_embedding_retries - 1
                THEN next_embedding_chunk([called EXCEPT !.status[i] = "failed"])
                ELSE [called EXCEPT !.attempt = @ + 1, !.pauses[i] = @ + 1]
    /\ UNCHANGED <<managerVars, snapshot, folderVars, chunkVars, streamVars,
                   staging, request>>

\* generate_embeddings_batch, one turn of its loop over the texts: one
\* generate_embedding call; an exception is logged and an empty list is
\* appended in place of the embedding, which process_document then filters
\* out as a failed embedding.
batch_embedding_call ==
    /\ embedding.pc = "chunks"
    /\ embedding.by = "pipeline"
    /\ LET e == embedding
           i == e.i
           called == [e EXCEPT !.calls[i] = @ + 1] IN
       \E ok \in BOOLEAN :
          embedding' = next_embedding_chunk([called EXCEPT !.status[i] =
                                      IF ok THEN "embedded" ELSE "failed"])
    /\ UNCHANGED <<managerVars, snapshot, folderVars, chunkVars, streamVars,
                   staging, request>>

NextEmbedding ==
    \/ simple_embedding_attempt
    \/ batch_embedding_call

SpecEmbedding == InitEmbedding /\ [][NextEmbedding]_vars

\* ------------------------------------------------------ simple upload request
\* upload_documents_simple hands the one session of the request (Depends on
\* get_db) to SimpleDocumentProcessor.process_document for every file in turn.
\* db_docs / db_chunks are the committed rows, s_docs / s_chunks the rows as
\* the request's session sees them (flushed, not necessarily committed).
ContentHashes == {"h1", "h2"}
\* What happens to a file after the duplicate check: it is ingested, Tika
\* yields no text, or an exception is raised once the document row exists
\* (the vector store cannot be connected).
SimpleOutcomes == {"ok", "no_text", "raises"}
UploadFiles == [sha256 : ContentHashes, outcome : SimpleOutcomes]

\* The document ingested before the request, with its chunk row.
PriorDocument == [id |-> 1, sha256 |-> "h1", status |-> DOC_COMPLETED,
                  chunk_count |-> 1]
PriorChunks == {[document_id |-> 1, chunk_index |-> 0]}

RECURSIVE file_lists(_)
file_lists(n) ==
    IF n = 0 THEN {<<>>}
    ELSE LET shorter == file_lists(n - 1)
         IN  shorter \cup {Append(l, u) : l \in {x \in shorter : Len(x) = n - 1},
                                          u \in UploadFiles}

InitSimple ==
    /\ job = [NewJob EXCEPT !.status = NOJOB]
    /\ NoTask
    /\ snapshot = NoSnapshot
    /\ NoFolders
    /\ NoText
    /\ NoStream
    /\ staging = NoStaging
    /\ embedding = NoEmbedding
    /\ \E l \in file_lists(RequestFiles) \ {<<>>} :
          request = [pc |-> "check", files |-> l, i |-> 1,
                     db_docs |-> {PriorDocument}, db_chunks |-> PriorChunks,
                     s_docs |-> {PriorDocument}, s_chunks |-> PriorChunks,
                     next_id |-> 2, results |-> <<>>]

\* Steps 1 and 2 of process_document: the row with the file's hash, if the
\* session sees one, is deleted with its chunk rows and the deletion flushed.
replace_existing ==
    /\ request.pc = "check"
    /\ LET file == request.files[request.i]
           existing_doc == {d \in request.s_docs : d.sha256 = file.sha256}
           existing_chunks == {c \in request.s_chunks :
                                 \E d \in existing_doc : c.document_id = d.id}
       IN  request' = [request EXCEPT
                          !.pc = "ingest",
                          !.s_docs = @ \ existing_doc,
                          !.s_chunks = @ \ existing_chunks,
                          !.results = Append(@, [success |-> FALSE,
                                                 retired |-> existing_doc,
                                                 retired_chunks |-> existing_chunks])]
    /\ UNCHANGED <<managerVars, snapshot, folderVars, chunkVars, streamVars,
                   staging, embedding>>

\* What db.commit() leaves in the database: the session's rows.
session_commit(r) == [r EXCEPT !.db_docs = r.s_docs, !.db_chunks = r.s_chunks]

\* Steps 3 to 7 of process_document and the end of the loop body: no text
\* returns a failure with the session left as it is; otherwise the document
\* row is added and either completed with its chunk and committed, or, on an
\* exception, marked FAILED and committed by the except clause.
ingest_document ==
    /\ request.pc = "ingest"
    /\ LET file == request.files[request.i]
           document(st, n) == [id |-> request.next_id, sha256 |-> file.sha256,
                               status |-> st, chunk_count |-> n]
           after ==
             CASE file.outcome = "no_text" -> request
               [] file.outcome = "ok" ->
                    session_commit([request EXCEPT
                       !.s_docs = @ \cup {document(DOC_COMPLETED, 1)},
                       !.s_chunks = @ \cup {[document_id |-> request.next_id,
                                             chunk_index |-> 0]},
                       !.next_id = @ + 1,
                       !.results[request.i].success = TRUE])
               [] file.outcome = "raises" ->
                    session_commit([request EXCEPT
                       !.s_docs = @ \cup {document(DOC_FAILED, 0)},
                       !.next_id = @ + 1])
       IN  request' = [after EXCEPT
                          !.pc = IF request.i = Len(request.files)
                                    THEN "return" ELSE "check",
                          !.i = IF request.i = Len(request.files)
                                   THEN @ ELSE @ + 1]
    /\ UNCHANGED <<managerVars, snapshot, folderVars, chunkVars, streamVars,
                   staging, embedding>>

\* The route returns its summary and get_db closes the session: what was
\* flushed and not committed is dropped.
request_return ==
    /\ request.pc = "return"
    /\ request' = [request EXCEPT !.pc = "closed",
                                  !.s_docs = request.db_docs,
                                  !.s_chunks = request.db_chunks]
    /\ UNCHANGED <<managerVars, snapshot, folderVars, chunkVars, streamVars,
                   staging, embedding>>

NextSimple ==
    \/ replace_existing
    \/ ingest_document
    \/ request_return

SpecSimple == InitSimple /\ [][NextSimple]_vars

\* ------------------------------------------------------------------ claims
BatchFiles == 1..job.total_files
DocumentOf(f) == CHOOSE d \in docs : d.upload = f
HasDocument(f) == \E d \in docs : d.upload = f

\* C1: after any interleaving of per-file ingestions into the collection
\* (two files with identical bytes in one batch included), the committed
\* document rows hold at most one row per content hash.
C1_OneDocumentPerHash ==
    \A d1 \in Visible : \A d2 \in Visible : d1.hash = d2.hash => d1 = d2

\* C2: when a finished upload found a document with its own bytes already in
\* the collection, that old row and its chunk rows are gone and the one
\* document left for the hash is the new upload's; no chunk row references a
\* document that does not exist.
C2_ReuploadReplaces ==
    /\ \A f \in Files :
         (pc[f] = "done" /\ existing[f] # 0) =>
            /\ ~(\E d \in docs : d.id = existing[f])
            /\ ~(\E c \in chunks : c.doc = existing[f])
            /\ \E d \in Visible : d.hash = file_hash(f) /\ d.upload = f
            /\ \A d \in Visible : d.hash = file_hash(f) => d.upload = f
    /\ \A c \in chunks : \E d \in docs : d.id = c.doc

\* C3: the job's status never leaves a terminal status and never moves from
\* processing back to pending, whatever operations interleave.
C3_StatusOnlyForward ==
    [][/\ job.status \in TerminalStatus => job'.status = job.status
       /\ job.status = PROCESSING => job'.status # PENDING]_vars

\* C4: processed_files never exceeds total_files, and on a job in a terminal
\* status successful_files + failed_files equals processed_files.
C4_CountersConsistent ==
    /\ job.processed_files <= job.total_files
    /\ job.status \in TerminalStatus =>
          job.successful_files + job.failed_files = job.processed_files

\* C4 witness: a job with files ended in a terminal status after its task
\* took a file's result and left the batch call by an exception.
C4_Witness ==
    /\ job.status \in TerminalStatus
    /\ job.total_files > 0
    /\ batchCall = "raised"

FailedOutcomes == {"unreadable", "multiple_rows", "raised", "nothing_stored"}

\* C5: once every file of the batch has completed and the job task is over
\* (no cancel, no second start call), the job's status is completed if no
\* file failed and failed if at least one did.
C5_FinalStatusReflectsFailures ==
    (/\ job.total_files > 0
     /\ \A f \in BatchFiles : pc[f] = "done"
     /\ taskPc = "finished"
     /\ startResult = "started"
     /\ ~cancelled)
    => job.status = IF \E f \in BatchFiles : outcome[f] \in FailedOutcomes
                       THEN FAILED ELSE COMPLETED

\* C6: after a running job was cancelled, no file that was still waiting for
\* a concurrency slot begins, and the job's status stays cancelled (steps of
\* a further start call set aside).
C6_CancelStopsScheduling ==
    [][(taskPc = "cancelled" /\ startResult' = startResult) =>
          /\ \A f \in Files : pc[f] = "waiting" => pc'[f] = "waiting"
          /\ job'.status = CANCELLED]_vars

\* C7: at every moment of a batch run at most max_concurrent_files files are
\* in flight, however many files the batch has.
C7_BoundedInFlight == Cardinality(InFlight) <= max_concurrent_files

\* C7 witness: the limit binds: max_concurrent_files files are in flight
\* while another file of the batch waits for a slot.
C7_Witness ==
    /\ Cardinality(InFlight) = max_concurrent_files
    /\ \E f \in Files : pc[f] = "waiting"

\* C8: the batch call never ends by an exception, and when it has returned
\* every file of the batch is counted exactly once, as successful or as
\* failed, total_processed is the number of files and the job is terminal.
C8_BatchNeverAborts ==
    /\ batchCall # "raised"
    /\ batchCall = "returned" =>
          /\ results.total_processed = job.total_files
          /\ results.successful \cup results.failed = BatchFiles
          /\ results.successful \cap results.failed = {}
          /\ job.status \in TerminalStatus

\* C9: on every exit path the per-file processor hands the fan-out a dict
\* with a success flag: true with the document id and the stored-chunk count
\* for an ingested file, false with an error text for a failed step.
C9_StructuredResult ==
    \A f \in Files :
       pc[f] = "done" =>
          /\ ret[f].kind = "dict"
          /\ outcome[f] = "ingested" =>
                ret[f].success /\ ret[f].doc = DocumentOf(f).id
                               /\ ret[f].nchunks = DocumentOf(f).chunk_count
          /\ outcome[f] \in {"unreadable", "multiple_rows", "raised"} =>
                ~ret[f].success /\ ret[f].error # "none"

\* C10: a file that yields zero chunks, or whose chunks all fail embedding,
\* ends with its document in status FAILED carrying an error message, and is
\* not reported to the batch as a success.
C10_ZeroChunksIsFailure ==
    \A f \in Files :
       (pc[f] = "done" /\ outcome[f] = "nothing_stored") =>
          /\ HasDocument(f)
          /\ DocumentOf(f).status = DOC_FAILED
          /\ DocumentOf(f).error_message # "none"
          /\ ~(ret[f].kind = "dict" /\ ret[f].success)

C12_SecondCallCreatesNothing ==
    /\ repeated => lastCreated = 0
    /\ \A n1 \in folder_nodes : \A n2 \in folder_nodes :
          n1.full_path = n2.full_path => n1 = n2

\* C12 witness: the same paths were fed twice in a row and name folders
\* that exist.
C12_Witness ==
    /\ repeated
    /\ \E n \in folder_nodes : n.depth > 0

\* C19: every folder node without a parent has depth 0 and its name as
\* full_path; every other node has a parent row, depth one more than the
\* parent's and full_path equal to the parent's full_path, "/" and its name.
C19_PathAndDepthFollowParent ==
    \A n \in folder_nodes :
       /\ (n.parent_id = NoParent) <=> (n.depth = 0)
       /\ n.parent_id = NoParent => n.full_path = n.name
       /\ n.parent_id # NoParent =>
             \E m \in folder_nodes :
                /\ m.id = n.parent_id
                /\ n.full_path = m.full_path \o <<Sep>> \o n.name
                /\ n.depth = m.depth + 1

\* C19 witness: after two calls, the second with other paths than the
\* first, a folder holds two children.
C19_Witness ==
    /\ lastPaths # {} /\ ~repeated /\ lastCreated > 0
    /\ \E n1 \in folder_nodes : \E n2 \in folder_nodes :
          n1 # n2 /\ n1.parent_id = n2.parent_id /\ n1.parent_id # NoParent

C14_ZipYieldsFolderTree ==
    zipPc = "done" =>
       /\ {<<n.full_path, n.depth>> : n \in folder_nodes} =
             {<< <<"a">>, 0 >>, << <<"a", Sep, "b">>, 1 >>, << <<"a", Sep, "c">>, 1 >>}
       /\ \A n \in folder_nodes :
             n.full_path = <<"a">> => n.total_documents = 2 /\ n.document_count = 0

\* C13: no chunk the chunker produces is longer than max_size, except a
\* chunk that is one sentence which is itself longer than max_size.
C13_ChunkWithinMaxSize ==
    chunkPc # "text" =>
       \A k \in 1..Len(text_chunks) :
          \/ Len(text_chunks[k].text) <= chunker.max_chunk_size
          \/ \E i \in 1..Len(sentences) :
                /\ text_chunks[k].text = strip(sentences[i])
                /\ Len(strip(sentences[i])) > chunker.max_chunk_size

\* C18: the chunk rows stored for a document carry the indices 0, 1, ...,
\* without a gap, also when some chunks failed embedding.
C18_ContiguousChunkIndices ==
    chunkPc = "stored" =>
       {r.idx : r \in stored_rows} = 0..(Cardinality(stored_rows) - 1)

FailedFiles == {f \in BatchFiles : pc[f] = "done" /\ outcome[f] \in FailedOutcomes}

\* C15: when the job task has ended the job (every file of the batch done,
\* no cancel, no second start call), the job's error log holds exactly one
\* entry per failed file, and each entry carries the file's name and an
\* error text.
C15_ErrorLogPerFailedFile ==
    (/\ job.status \in TerminalStatus
     /\ job.total_files > 0
     /\ \A f \in BatchFiles : pc[f] = "done"
     /\ taskPc = "finished"
     /\ startResult = "started"
     /\ ~cancelled)
    => /\ Len(job.error_log) = Cardinality(FailedFiles)
       /\ \A i \in 1..Len(job.error_log) :
             /\ "file" \in DOMAIN job.error_log[i]
             /\ "error" \in DOMAIN job.error_log[i]
             /\ job.error_log[i].file \in FailedFiles
       /\ \A f \in FailedFiles :
             Cardinality({i \in 1..Len(job.error_log) :
                             "file" \in DOMAIN job.error_log[i]
                             /\ job.error_log[i].file = f}) = 1

Counters(j) == <<j.processed_files, j.successful_files, j.failed_files>>

\* C17: once the job is in a terminal status no step (a progress write, the
\* background task's end, a start call, a cancel call) changes
\* processed_files, successful_files or failed_files.
C17_CountersFrozenOnceTerminal ==
    [][job.status \in TerminalStatus => Counters(job') = Counters(job)]_vars

\* C17 witness: a job with files was ended by its background task after the
\* task took a file's result, and a start call on the started job was
\* refused: whichever of the two came second acted on a terminal job.
C17_Witness ==
    /\ startResult = "rejected"
    /\ job.total_files > 0
    /\ taskPc = "finished"
    /\ batchCall = "raised"
    /\ job.status \in TerminalStatus

\* C21: the hierarchy builder has run for the batch's folder paths before
\* any file is processed: whenever a document row of a file exists, a folder
\* node with the file's folder path exists.
C21_FolderNodeBeforeDocument ==
    \A d \in docs : \E n \in folder_nodes : n.full_path = file_folder_path(d.upload)

ProgressAt == {i \in 1..Len(events) : events[i].type = "batch_progress"}
FileEndTypes == {"file_complete", "file_error"}

\* C22: in the streaming batch run the k-th batch_progress event carries
\* processed = k and successful + failed = processed, the file_complete or
\* file_error event of a file comes after the file's file_start event, and
\* batch_complete is sent once, as the last event, after one batch_progress
\* event per file.
C22_StreamingEventOrder ==
    /\ \A i \in ProgressAt :
          /\ events[i].processed = Cardinality({j \in ProgressAt : j <= i})
          /\ events[i].successful + events[i].failed = events[i].processed
    /\ \A i \in 1..Len(events) :
          events[i].type \in FileEndTypes =>
             \E j \in 1..(i - 1) :
                events[j].type = "file_start" /\ events[j].file = events[i].file
    /\ \A i \in 1..Len(events) :
          events[i].type = "batch_complete" => i = Len(events)
    /\ taskPc = "finished" =>
          /\ Len(events) > 0
          /\ events[Len(events)].type = "batch_complete"
          /\ Cardinality(ProgressAt) = Cardinality(StreamBatch)
          /\ \A f \in StreamBatch :
                \E i \in 1..Len(events) :
                   events[i].type \in FileEndTypes /\ events[i].file = f

\* C22 witness: a run of at least two files has returned, and the file
\* submitted second reported its end before the file submitted first.
C22_Witness ==
    /\ taskPc = "finished"
    /\ Cardinality(StreamBatch) >= 2
    /\ \E i \in 1..Len(events) : \E j \in 1..Len(events) :
          /\ i < j
          /\ events[i].type \in FileEndTypes /\ events[i].file = 2
          /\ events[j].type \in FileEndTypes /\ events[j].file = 1

C24_NoDocumentLeftProcessing ==
    /\ \A d \in Visible : d.status # DOC_PROCESSING
    /\ (/\ job.total_files > 0
        /\ taskPc \in {"finished", "cancelled"}
        /\ \A f \in BatchFiles : pc[f] = "done")
       => \A d \in docs : d.committed /\ d.status \in {DOC_COMPLETED, DOC_FAILED}

\* C24 witness: the job was cancelled while its task ran, the files then
\* finished, one of them with a stored document and one by an error that
\* left a document row.
C24_Witness ==
    /\ taskPc = "cancelled"
    /\ job.total_files > 1
    /\ \A f \in BatchFiles : pc[f] = "done"
    /\ \E d \in docs : d.status = DOC_COMPLETED /\ d.chunk_count > 0
    /\ \E d \in docs : d.status = DOC_FAILED

\* C25: a staged file (a file of the directory a ZIP was extracted into
\* included) is deleted only after the per-file processor is through with
\* it: every deleted file has been read, and no read finds its file gone.
C25_CleanupAfterProcessing ==
    staging.pc # "none" =>
       /\ \A f \in staging.deleted : staging.read[f] # "none"
       /\ \A f \in Files : staging.read[f] # "missing"

\* C26: every chunk gets at most 3 embedding calls with a pause between
\* one call and the next; a chunk is failed only when its third call has
\* failed, an embedded chunk gets no further call, and when the document is
\* through every chunk has been tried, whatever became of the chunks before
\* it.
C26_ThreeEmbeddingAttempts ==
    embedding.pc # "none" =>
       /\ \A k \in 1..embedding.n :
             /\ embedding.calls[k] <= 3
             /\ embedding.status[k] = "failed" => embedding.calls[k] = 3
             /\ embedding.status[k] # "todo" =>
                   embedding.pauses[k] = embedding.calls[k] - 1
       /\ embedding.pc = "done" =>
             \A k \in 1..embedding.n :
                embedding.status[k] # "todo" /\ embedding.calls[k] >= 1

\* The untrimmed content of every chunk create_chunks makes (current_chunk at
\* the moment the TextChunk is built), in order.
RECURSIVE untrimmed_loop(_, _, _, _, _)
untrimmed_loop(c, sents, i, out, current_chunk) ==
    IF i > Len(sents)
       THEN IF strip(current_chunk) # <<>> THEN Append(out, current_chunk) ELSE out
       ELSE IF chunk_is_full(c, current_chunk, sents[i])
               THEN untrimmed_loop(c, sents, i + 1, Append(out, current_chunk),
                        get_overlap_text(current_chunk, c.overlap_size) \o sents[i])
               ELSE untrimmed_loop(c, sents, i + 1, out, current_chunk \o sents[i])
Untrimmed == untrimmed_loop(chunker, sentences, 1, <<>>, <<>>)

\* C27: for every chunk end_pos - start_pos is the length of the chunk's
\* untrimmed content, the start_pos of the next chunk is this chunk's
\* end_pos less the length of the overlap carried over, and start_pos never
\* decreases from one chunk to the next.
C27_ChunkOffsets ==
    chunkPc # "text" =>
       /\ Len(Untrimmed) = Len(text_chunks)
       /\ \A k \in 1..Len(text_chunks) :
             text_chunks[k].end_pos - text_chunks[k].start_pos = Len(Untrimmed[k])
       /\ \A k \in 1..(Len(text_chunks) - 1) :
             /\ text_chunks[k + 1].start_pos =
                   text_chunks[k].end_pos
                     - Len(get_overlap_text(Untrimmed[k], chunker.overlap_size))
             /\ text_chunks[k].start_pos <= text_chunks[k + 1].start_pos

\* C29: a start_processing_job call on a job that is not pending is refused
\* and changes nothing: the job row (status, counters, error log) is as it
\* was, and no background task is created or replaced.
C29_RejectedStartChangesNothing ==
    [][(job.status \notin {NOJOB, PENDING} /\ startResult # "rejected"
          /\ startResult' = "rejected")
         => (job' = job /\ taskPc' = taskPc /\ active' = active)]_vars

\* The files of the request whose ingestion failed after an earlier document
\* with the same content had been retired, and which no later file of the
\* request replaced successfully.
FailedReplacements ==
    {k \in 1..Len(request.results) :
        /\ request.results[k].retired # {}
        /\ ~request.results[k].success
        /\ ~\E m \in (k + 1)..Len(request.results) :
              /\ request.files[m].sha256 = request.files[k].sha256
              /\ request.results[m].success}

\* C30: once the upload request has finished, the document retired by a
\* failed replacement, and its chunk rows, are still in the collection,
\* whatever files came after it in the request.
C30_FailedReplacementKeepsOldDocument ==
    request.pc = "closed" =>
       \A k \in FailedReplacements :
          /\ request.results[k].retired \subseteq request.db_docs
          /\ request.results[k].retired_chunks \subseteq request.db_chunks

====
